---- MODULE Spec2Model ----
(***************************************************************************)
(* Model of the Map metadata (permission sets, addresses), the Map CRDT    *)
(* constructor and the Sequence request classification of safe-nd.         *)
(*                                                                         *)
(* Rust values are represented as follows:                                 *)
(*   Option<T>   : <<>> is None, <<v>> is Some(v)                          *)
(*   Result<()>  : <<"Ok">> is Ok(()), <<"Err", e>> is Err(e)              *)
(*   User        : <<"Anyone">> is User::Anyone, <<"Key", k>> is Key(k)    *)
(*   BTreeMap    : a function whose DOMAIN is the set of keys present      *)
(***************************************************************************)
EXTENDS Integers, Sequences, FiniteSets, TLC

(***************************************************************************)
(* Bounds of the model.                                                    *)
(***************************************************************************)
\* Largest number of entries a permissions map is given.
MaxEntries == 2

\* Number of distinct XorNames.
NumNames == 3

\* Largest tag (tags are u64; only their identity matters here).
MaxTag == 2

(***************************************************************************)
(* Input domains.                                                          *)
(***************************************************************************)
PublicKeys == {"K1", "K2"}

None == <<>>

Some(v) == <<v>>

OptBool == {None, Some(TRUE), Some(FALSE)}

Ok == <<"Ok">>

Err(e) == <<"Err", e>>

\* metadata.rs: enum Action
Actions == {"Read", "Insert", "Update", "Delete", "ManagePermissions"}

\* metadata.rs: enum User
Anyone == <<"Anyone">>

Key(k) == <<"Key", k>>

Users == {Anyone} \cup {Key(k) : k \in PublicKeys}

XorNames == 1..NumNames

Tags == 0..MaxTag

\* metadata.rs: enum Kind
Kinds == {"Public", "Private"}

\* crate::Error values handed to error_response
Errors == {"AccessDenied", "InvalidOperation", "NotFound"}

VARIABLES
    permissions,   \* the Permissions value under evaluation (Pub or Priv)
    checked,       \* the is_action_allowed call made on it and its result
    data,          \* the Data value (Public or Private Map) constructed
    observed,      \* the value last returned by MapCrdt::address
    request,       \* the SDataRequest last handled
    outcome,       \* the method called on the request, its argument and result
    user_perms,    \* a single user's PubUserPermissions value
    given,         \* the arguments of the latest new / set_perms call on it
    asked,         \* the last is_allowed call on it and its result
    encoded,       \* the Address last encoded and the text produced
    decoded        \* the text last decoded and the Result<Address> produced

entryVars == <<user_perms, given, asked>>

textVars == <<encoded, decoded>>

vars == <<permissions, checked, data, observed, request, outcome,
          entryVars, textVars>>

(***************************************************************************)
(* PubUserPermissions                                                      *)
(***************************************************************************)
\* PubUserPermissions::new
PubUserPermissionsNew(read, insert, update, manage_permissions) ==
    [read |-> read, insert |-> insert, update |-> update,
     manage_permissions |-> manage_permissions]

PubUserPermissionsSet ==
    {PubUserPermissionsNew(r, i, u, m) : r \in OptBool, i \in OptBool,
                                         u \in OptBool, m \in OptBool}

\* Variant of set_perms that stores insert and update crossed over
PubUserPermissionsSetPermsCrossed(self, read, insert, update, manage_permissions) ==
    [self EXCEPT !.read = read, !.insert = update, !.update = insert,
                 !.manage_permissions = manage_permissions]

\* PubUserPermissions::set_perms
PubUserPermissionsSetPerms(self, read, insert, update, manage_permissions) ==
    [self EXCEPT !.read = read, !.insert = insert, !.update = update,
                 !.manage_permissions = manage_permissions]

\* The arguments new and set_perms accept (impl Into<Option<bool>>): a bool
\* or an Option<bool>
PermArgs ==
    {<<"bool", b>> : b \in BOOLEAN} \cup {<<"option", o>> : o \in OptBool}

\* Into<Option<bool>>::into: Some(b) from a bool, the option itself otherwise
IntoOption(x) == IF x[1] = "bool" THEN Some(x[2]) ELSE x[2]

\* Variant of is_allowed that reads a stored bit for Delete
PubIsAllowedDeleteStored(self, action) ==
    CASE action = "Read" -> Some(TRUE)
      [] action = "Insert" -> self.insert
      [] action = "Update" -> self.update
      [] action = "Delete" -> self.manage_permissions
      [] action = "ManagePermissions" -> self.manage_permissions

\* PubUserPermissions::is_allowed
PubIsAllowed(self, action) ==
    CASE action = "Read" -> Some(TRUE)
      [] action = "Insert" -> self.insert
      [] action = "Update" -> self.update
      [] action = "Delete" -> Some(FALSE)
      [] action = "ManagePermissions" -> self.manage_permissions

(***************************************************************************)
(* PrivUserPermissions                                                     *)
(***************************************************************************)
\* PrivUserPermissions::new
PrivUserPermissionsNew(read, insert, update, delete, manage_permissions) ==
    [read |-> read, insert |-> insert, update |-> update, delete |-> delete,
     manage_permissions |-> manage_permissions]

PrivUserPermissionsSet ==
    {PrivUserPermissionsNew(r, i, u, d, m) : r \in BOOLEAN, i \in BOOLEAN,
                                 u \in BOOLEAN, d \in BOOLEAN, m \in BOOLEAN}

\* Variant of is_allowed that reads the insert bit for Update
PrivIsAllowedUpdateAsInsert(self, action) ==
    CASE action = "Read" -> self.read
      [] action = "Insert" -> self.insert
      [] action = "Update" -> self.insert
      [] action = "Delete" -> self.delete
      [] action = "ManagePermissions" -> self.manage_permissions

\* PrivUserPermissions::is_allowed
PrivIsAllowed(self, action) ==
    CASE action = "Read" -> self.read
      [] action = "Insert" -> self.insert
      [] action = "Update" -> self.update
      [] action = "Delete" -> self.delete
      [] action = "ManagePermissions" -> self.manage_permissions

(***************************************************************************)
(* PubPermissions / PrivPermissions and the Perm trait                     *)
(***************************************************************************)
\* BTreeMap::get
MapGet(m, k) == IF k \in DOMAIN m THEN Some(m[k]) ELSE None

\* PubPermissions::is_action_allowed_by_user:
\*   self.permissions.get(user).and_then(|perms| perms.is_allowed(action))
IsActionAllowedByUser(self, user, action) ==
    LET entry == MapGet(self.permissions, user)
    IN  IF entry = None THEN None ELSE PubIsAllowed(entry[1], action)

\* Variant of is_action_allowed that resolves Anyone before the requester
PubIsActionAllowedAnyoneFirst(self, requester, action) ==
    LET any == IsActionAllowedByUser(self, Anyone, action)
        resolved == IF any # None THEN any
                    ELSE IsActionAllowedByUser(self, Key(requester), action)
    IN  CASE resolved = Some(TRUE) -> Ok
          [] resolved = Some(FALSE) -> Err("AccessDenied")
          [] resolved = None -> Err("AccessDenied")

\* Variant of is_action_allowed without the fall-back to Anyone
PubIsActionAllowedNoFallback(self, requester, action) ==
    LET resolved == IsActionAllowedByUser(self, Key(requester), action)
    IN  CASE resolved = Some(TRUE) -> Ok
          [] resolved = Some(FALSE) -> Err("AccessDenied")
          [] resolved = None -> Err("AccessDenied")

\* Variant of is_action_allowed that allows when nothing is resolved
PubIsActionAllowedDefaultAllow(self, requester, action) ==
    LET own == IsActionAllowedByUser(self, Key(requester), action)
        resolved == IF own # None THEN own
                    ELSE IsActionAllowedByUser(self, Anyone, action)
    IN  CASE resolved = Some(TRUE) -> Ok
          [] resolved = Some(FALSE) -> Err("AccessDenied")
          [] resolved = None -> Ok

\* <PubPermissions as Perm>::is_action_allowed
PubIsActionAllowed(self, requester, action) ==
    LET own == IsActionAllowedByUser(self, Key(requester), action)
        resolved == IF own # None THEN own
                    ELSE IsActionAllowedByUser(self, Anyone, action)
    IN  CASE resolved = Some(TRUE) -> Ok
          [] resolved = Some(FALSE) -> Err("AccessDenied")
          [] resolved = None -> Err("AccessDenied")

\* Variant of is_action_allowed that allows a requester without an entry
PrivIsActionAllowedDefaultAllow(self, requester, action) ==
    LET entry == MapGet(self.permissions, requester)
    IN  IF entry # None
        THEN IF PrivIsAllowed(entry[1], action) THEN Ok
             ELSE Err("AccessDenied")
        ELSE Ok

\* <PrivPermissions as Perm>::is_action_allowed
PrivIsActionAllowed(self, requester, action) ==
    LET entry == MapGet(self.permissions, requester)
    IN  IF entry # None
        THEN IF PrivIsAllowed(entry[1], action) THEN Ok
             ELSE Err("AccessDenied")
        ELSE Err("AccessDenied")

\* enum Permissions { Pub(PubPermissions), Priv(PrivPermissions) }
PermissionsPub(p) == [kind |-> "Pub", permissions |-> p]

PermissionsPriv(p) == [kind |-> "Priv", permissions |-> p]

NoCheck == [requester |-> "", action |-> "", result |-> None]

(***************************************************************************)
(* Permission sets given to the resolver, and the resolver call            *)
(***************************************************************************)
\* The key sets of the BTreeMaps with keys in K and at most MaxEntries entries
BoundedDomains(K) == {D \in SUBSET K : Cardinality(D) <= MaxEntries}

NoData == [variant |-> "None"]

NoRequest == [variant |-> "None"]

NoOutcome == [op |-> "None"]

IdlePerms == permissions = PermissionsPub(<<>>) /\ checked = NoCheck

IdleMap == data = NoData /\ observed = None

IdleRequest == request = NoRequest /\ outcome = NoOutcome

NoEntry == [state |-> "None"]

NoAsk == [action |-> "", result |-> None]

IdleEntry == user_perms = NoEntry /\ given = None /\ asked = NoAsk

IdleText == encoded = None /\ decoded = None

\* A PubPermissions or a PrivPermissions value, not yet queried
InitPerms ==
    /\ \/ \E D \in BoundedDomains(Users) :
             \E p \in [D -> PubUserPermissionsSet] :
                permissions = PermissionsPub(p)
       \/ \E D \in BoundedDomains(PublicKeys) :
             \E p \in [D -> PrivUserPermissionsSet] :
                permissions = PermissionsPriv(p)
    /\ checked = NoCheck

\* The call of is_action_allowed(requester, action) on a public set.  The
\* call takes &self and is pure, so one call per set is recorded.
CheckPub ==
    /\ checked = NoCheck
    /\ permissions.kind = "Pub"
    /\ \E requester \in PublicKeys, action \in Actions :
          checked' = [requester |-> requester, action |-> action,
                      result |-> PubIsActionAllowed(permissions, requester, action)]
    /\ UNCHANGED <<permissions, data, observed, request, outcome,
                   entryVars, textVars>>

\* The call of is_action_allowed(requester, action) on a private set
CheckPriv ==
    /\ checked = NoCheck
    /\ permissions.kind = "Priv"
    /\ \E requester \in PublicKeys, action \in Actions :
          checked' = [requester |-> requester, action |-> action,
                      result |-> PrivIsActionAllowed(permissions, requester, action)]
    /\ UNCHANGED <<permissions, data, observed, request, outcome,
                   entryVars, textVars>>

Init == InitPerms /\ IdleMap /\ IdleRequest /\ IdleEntry /\ IdleText

Next == CheckPub \/ CheckPriv

Spec == Init /\ [][Next]_vars

(***************************************************************************)
(* Address and MapCrdt                                                     *)
(***************************************************************************)
\* Address::from_kind
AddressFromKind(kind, name, tag) ==
    CASE kind = "Public" -> [variant |-> "Public", name |-> name, tag |-> tag]
      [] kind = "Private" -> [variant |-> "Private", name |-> name, tag |-> tag]

\* Address::kind
AddressKind(self) ==
    CASE self.variant = "Public" -> "Public"
      [] self.variant = "Private" -> "Private"

\* Kind::is_pub
KindIsPub(self) == self = "Public"

\* Kind::is_priv
KindIsPriv(self) == ~KindIsPub(self)

\* Address::is_public
AddressIsPublic(self) == KindIsPub(AddressKind(self))

\* Address::is_private
AddressIsPrivate(self) == KindIsPriv(AddressKind(self))

Addresses ==
    {AddressFromKind(k, n, t) : k \in Kinds, n \in XorNames, t \in Tags}

LSEQ_BOUNDARY == 1

LSEQ_TREE_BASE == 10

\* LSeq::new_with_args as used by MapCrdt::new: an empty sequence
LSeqNewWithArgs(actor, base, boundary) ==
    [actor |-> actor, base |-> base, boundary |-> boundary, entries |-> <<>>]

\* MapCrdt::new
MapCrdtNew(actor, address) ==
    [address |-> address,
     data |-> <<>>,
     permissions |-> LSeqNewWithArgs(actor, LSEQ_TREE_BASE, LSEQ_BOUNDARY),
     owners |-> LSeqNewWithArgs(actor, LSEQ_TREE_BASE, LSEQ_BOUNDARY)]

\* MapCrdt::address
MapCrdtAddress(self) == self.address

\* Data::Public(PublicMap), PublicMap = MapCrdt<ActorType, PubPermissions>
DataPublic(map) == [variant |-> "Public", map |-> map]

\* Data::Private(PrivateMap), PrivateMap = MapCrdt<ActorType, PrivPermissions>
DataPrivate(map) == [variant |-> "Private", map |-> map]

InitMap == IdlePerms /\ IdleMap /\ IdleRequest /\ IdleEntry /\ IdleText

\* PublicMap::new(actor, address)
NewPublicMap ==
    /\ \E actor \in PublicKeys, address \in Addresses :
          data' = DataPublic(MapCrdtNew(actor, address))
    /\ UNCHANGED <<permissions, checked, observed, request, outcome,
                   entryVars, textVars>>

\* PrivateMap::new(actor, address)
NewPrivateMap ==
    /\ \E actor \in PublicKeys, address \in Addresses :
          data' = DataPrivate(MapCrdtNew(actor, address))
    /\ UNCHANGED <<permissions, checked, observed, request, outcome,
                   entryVars, textVars>>

\* map.address() on the constructed Map
GetAddress ==
    /\ data # NoData
    /\ observed' = Some(MapCrdtAddress(data.map))
    /\ UNCHANGED <<permissions, checked, data, request, outcome,
                   entryVars, textVars>>

NextMap == NewPublicMap \/ NewPrivateMap \/ GetAddress

SpecMap == InitMap /\ [][NextMap]_vars

(***************************************************************************)
(* SDataRequest                                                            *)
(***************************************************************************)
\* SDataAddress: the address of a Sequence, Public or Private
SDataAddresses ==
    {[variant |-> k, name |-> n, tag |-> t] :
        k \in Kinds, n \in XorNames, t \in Tags}

\* SDataAddress::is_pub
SDataAddressIsPub(self) == self.variant = "Public"

\* SDataIndex values used in ranges
SDataIndices == {<<"FromStart", 0>>, <<"FromEnd", 0>>}

\* SData: a Sequence, of which the request code uses only the address
SDatas == {[address |-> a] : a \in SDataAddresses}

\* SDataMutationOperation<T> { address, crdt_op }
SDataMutationOperations(T) ==
    {[address |-> a, crdt_op |-> T] : a \in SDataAddresses}

\* enum SDataRequest
Store(d) == [variant |-> "Store", data |-> d]

Get(a) == [variant |-> "Get", address |-> a]

Delete(a) == [variant |-> "Delete", address |-> a]

GetRange(a, r) == [variant |-> "GetRange", address |-> a, range |-> r]

GetLastEntry(a) == [variant |-> "GetLastEntry", address |-> a]

GetPermissions(a) == [variant |-> "GetPermissions", address |-> a]

GetUserPermissions(a, u) ==
    [variant |-> "GetUserPermissions", address |-> a, user |-> u]

GetOwner(a) == [variant |-> "GetOwner", address |-> a]

MutatePubPermissions(op) == [variant |-> "MutatePubPermissions", op |-> op]

MutatePrivPermissions(op) == [variant |-> "MutatePrivPermissions", op |-> op]

MutateOwner(op) == [variant |-> "MutateOwner", op |-> op]

Mutate(op) == [variant |-> "Mutate", op |-> op]

SDataRequests ==
    {Store(d) : d \in SDatas}
    \cup {Get(a) : a \in SDataAddresses}
    \cup {Delete(a) : a \in SDataAddresses}
    \cup {GetRange(a, <<i, j>>) : a \in SDataAddresses,
                                  i \in SDataIndices, j \in SDataIndices}
    \cup {GetLastEntry(a) : a \in SDataAddresses}
    \cup {GetPermissions(a) : a \in SDataAddresses}
    \cup {GetUserPermissions(a, u) : a \in SDataAddresses, u \in Users}
    \cup {GetOwner(a) : a \in SDataAddresses}
    \cup {MutatePubPermissions(op) :
              op \in SDataMutationOperations("SDataPubPermissions")}
    \cup {MutatePrivPermissions(op) :
              op \in SDataMutationOperations("SDataPrivPermissions")}
    \cup {MutateOwner(op) : op \in SDataMutationOperations("SDataOwner")}
    \cup {Mutate(op) : op \in SDataMutationOperations("SDataEntry")}

\* Variant of error_response that answers a failed GetRange with the Get shape
ErrorResponseRangeAsGet(self, error) ==
    CASE self.variant \in {"Get", "GetRange"} ->
            [variant |-> "GetSData", result |-> Err(error)]
      [] self.variant = "GetLastEntry" ->
            [variant |-> "GetSDataLastEntry", result |-> Err(error)]
      [] self.variant = "GetPermissions" ->
            [variant |-> "GetSDataPermissions", result |-> Err(error)]
      [] self.variant = "GetUserPermissions" ->
            [variant |-> "GetSDataUserPermissions", result |-> Err(error)]
      [] self.variant = "GetOwner" ->
            [variant |-> "GetSDataOwner", result |-> Err(error)]
      [] self.variant \in {"Store", "Delete", "MutatePubPermissions",
                           "MutatePrivPermissions", "MutateOwner", "Mutate"} ->
            [variant |-> "Mutation", result |-> Err(error)]

\* SDataRequest::error_response
ErrorResponse(self, error) ==
    CASE self.variant = "Get" ->
            [variant |-> "GetSData", result |-> Err(error)]
      [] self.variant = "GetRange" ->
            [variant |-> "GetSDataRange", result |-> Err(error)]
      [] self.variant = "GetLastEntry" ->
            [variant |-> "GetSDataLastEntry", result |-> Err(error)]
      [] self.variant = "GetPermissions" ->
            [variant |-> "GetSDataPermissions", result |-> Err(error)]
      [] self.variant = "GetUserPermissions" ->
            [variant |-> "GetSDataUserPermissions", result |-> Err(error)]
      [] self.variant = "GetOwner" ->
            [variant |-> "GetSDataOwner", result |-> Err(error)]
      [] self.variant \in {"Store", "Delete", "MutatePubPermissions",
                           "MutatePrivPermissions", "MutateOwner", "Mutate"} ->
            [variant |-> "Mutation", result |-> Err(error)]

\* Variant of authorisation_kind that classes Delete by its address, as a read
AuthorisationKindDeleteAsGet(self) ==
    CASE self.variant \in {"Store", "MutatePubPermissions",
                           "MutatePrivPermissions", "MutateOwner", "Mutate"} ->
            "Mutation"
      [] self.variant \in {"Delete", "Get", "GetRange", "GetLastEntry",
                           "GetPermissions", "GetUserPermissions", "GetOwner"} ->
            IF SDataAddressIsPub(self.address) THEN "GetPub" ELSE "GetPriv"

\* SDataRequest::authorisation_kind
AuthorisationKind(self) ==
    CASE self.variant \in {"Store", "Delete", "MutatePubPermissions",
                           "MutatePrivPermissions", "MutateOwner", "Mutate"} ->
            "Mutation"
      [] self.variant \in {"Get", "GetRange", "GetLastEntry", "GetPermissions",
                           "GetUserPermissions", "GetOwner"} ->
            IF SDataAddressIsPub(self.address) THEN "GetPub" ELSE "GetPriv"

\* SDataAddress::name
SDataAddressName(self) == self.name

\* SData::name: the name of the address of the Sequence
SDataName(self) == SDataAddressName(self.address)

\* Variant of get_type with the test of the address inverted
GetTypeInverted(self) ==
    CASE self.variant \in {"Get", "GetRange", "GetLastEntry", "GetPermissions",
                           "GetUserPermissions", "GetOwner"} ->
            IF SDataAddressIsPub(self.address) THEN "PrivateGet" ELSE "PublicGet"
      [] self.variant \in {"Store", "Delete", "MutatePubPermissions",
                           "MutatePrivPermissions", "MutateOwner", "Mutate"} ->
            "Mutation"

\* SDataRequest::get_type
GetType(self) ==
    CASE self.variant \in {"Get", "GetRange", "GetLastEntry", "GetPermissions",
                           "GetUserPermissions", "GetOwner"} ->
            IF SDataAddressIsPub(self.address) THEN "PublicGet" ELSE "PrivateGet"
      [] self.variant \in {"Store", "Delete", "MutatePubPermissions",
                           "MutatePrivPermissions", "MutateOwner", "Mutate"} ->
            "Mutation"

\* Variant of dest_address that has no destination for Store
DestAddressNoneForStore(self) ==
    CASE self.variant = "Store" -> None
      [] self.variant \in {"Get", "Delete", "GetRange", "GetLastEntry"} ->
            Some(SDataAddressName(self.address))
      [] self.variant \in {"GetPermissions", "GetUserPermissions", "GetOwner"} ->
            Some(SDataAddressName(self.address))
      [] self.variant = "MutatePubPermissions" ->
            Some(SDataAddressName(self.op.address))
      [] self.variant = "MutatePrivPermissions" ->
            Some(SDataAddressName(self.op.address))
      [] self.variant = "MutateOwner" -> Some(SDataAddressName(self.op.address))
      [] self.variant = "Mutate" -> Some(SDataAddressName(self.op.address))

\* SDataRequest::dest_address (Cow::Borrowed(name) is the name itself)
DestAddress(self) ==
    CASE self.variant = "Store" -> Some(SDataName(self.data))
      [] self.variant \in {"Get", "Delete", "GetRange", "GetLastEntry"} ->
            Some(SDataAddressName(self.address))
      [] self.variant \in {"GetPermissions", "GetUserPermissions", "GetOwner"} ->
            Some(SDataAddressName(self.address))
      [] self.variant = "MutatePubPermissions" ->
            Some(SDataAddressName(self.op.address))
      [] self.variant = "MutatePrivPermissions" ->
            Some(SDataAddressName(self.op.address))
      [] self.variant = "MutateOwner" -> Some(SDataAddressName(self.op.address))
      [] self.variant = "Mutate" -> Some(SDataAddressName(self.op.address))

InitRequest ==
    IdlePerms /\ IdleMap /\ IdleRequest /\ IdleEntry /\ IdleText

\* request.error_response(error)
CallErrorResponse ==
    /\ \E r \in SDataRequests, error \in Errors :
          /\ request' = r
          /\ outcome' = [op |-> "error_response", arg |-> error,
                         value |-> ErrorResponse(r, error)]
    /\ UNCHANGED <<permissions, checked, data, observed,
                   entryVars, textVars>>

\* request.authorisation_kind()
CallAuthorisationKind ==
    /\ \E r \in SDataRequests :
          /\ request' = r
          /\ outcome' = [op |-> "authorisation_kind", arg |-> None,
                         value |-> AuthorisationKind(r)]
    /\ UNCHANGED <<permissions, checked, data, observed,
                   entryVars, textVars>>

\* request.get_type()
CallGetType ==
    /\ \E r \in SDataRequests :
          /\ request' = r
          /\ outcome' = [op |-> "get_type", arg |-> None, value |-> GetType(r)]
    /\ UNCHANGED <<permissions, checked, data, observed,
                   entryVars, textVars>>

\* request.dest_address() on the request at hand; the method borrows the
\* request (&self) and returns a borrow of the name
CallDestAddress ==
    /\ request # NoRequest
    /\ outcome' = [op |-> "dest_address", arg |-> None,
                   value |-> DestAddress(request)]
    /\ UNCHANGED <<permissions, checked, data, observed, request,
                   entryVars, textVars>>

NextRequest ==
    CallErrorResponse \/ CallAuthorisationKind \/ CallGetType \/ CallDestAddress

SpecRequest == InitRequest /\ [][NextRequest]_vars

(***************************************************************************)
(* A single user's public permission entry                                 *)
(***************************************************************************)
InitEntry == IdlePerms /\ IdleMap /\ IdleRequest /\ IdleEntry /\ IdleText

\* PubUserPermissions::new(read, insert, update, manage_permissions)
EntryNew ==
    /\ \E r \in PermArgs, i \in PermArgs, u \in PermArgs, m \in PermArgs :
          /\ user_perms' = PubUserPermissionsNew(IntoOption(r), IntoOption(i),
                                                 IntoOption(u), IntoOption(m))
          /\ given' = [by |-> "new", read |-> r, insert |-> i, update |-> u,
                       manage_permissions |-> m]
    /\ asked' = NoAsk
    /\ UNCHANGED <<permissions, checked, data, observed, request, outcome,
                   textVars>>

\* perms.set_perms(read, insert, update, manage_permissions)
EntrySetPerms ==
    /\ user_perms # NoEntry
    /\ \E r \in PermArgs, i \in PermArgs, u \in PermArgs, m \in PermArgs :
          /\ user_perms' = PubUserPermissionsSetPerms(user_perms,
                               IntoOption(r), IntoOption(i),
                               IntoOption(u), IntoOption(m))
          /\ given' = [by |-> "set_perms", read |-> r, insert |-> i,
                       update |-> u, manage_permissions |-> m]
    /\ asked' = NoAsk
    /\ UNCHANGED <<permissions, checked, data, observed, request, outcome,
                   textVars>>

\* perms.is_allowed(action) on the current value
EntryIsAllowed ==
    /\ user_perms # NoEntry
    /\ \E action \in Actions :
          asked' = [action |-> action,
                    result |-> PubIsAllowed(user_perms, action)]
    /\ UNCHANGED <<permissions, checked, data, observed, request, outcome,
                   user_perms, given, textVars>>

NextEntry == EntryNew \/ EntrySetPerms \/ EntryIsAllowed

SpecEntry == InitEntry /\ [][NextEntry]_vars

(***************************************************************************)
(* Address text form: utils::encode / utils::decode (serialise, then       *)
(* multibase z-base-32)                                                    *)
(***************************************************************************)
\* Length in bytes of an XorName
XorNameLen == 32

\* The z-base-32 alphabet, by 5-bit value 0..31
ZBase32Alphabet ==
    <<"y", "b", "n", "d", "r", "f", "g", "8", "e", "j", "k", "m", "c", "p",
      "q", "x", "o", "t", "1", "u", "w", "i", "s", "z", "a", "3", "4", "5",
      "h", "7", "6", "9">>

\* The multibase prefix of z-base-32
ZBase32Prefix == "h"

\* An XorName as its bytes: the names of the model with one name of 0xff bytes
XorNameBytes ==
    {[i \in 1..XorNameLen |-> IF i = 1 THEN n ELSE 0] : n \in XorNames}
    \cup {[i \in 1..XorNameLen |-> 255]}

\* Tags to encode: the tags of the model and values that fill several bytes
TagSamples == Tags \cup {255, 256, 65537, 2147483647}

TextAddresses ==
    {AddressFromKind(k, n, t) : k \in Kinds, n \in XorNameBytes, t \in TagSamples}

RECURSIVE LittleEndian(_, _)
\* The n little-endian bytes of an unsigned integer
LittleEndian(v, n) ==
    IF n = 0 THEN <<>> ELSE <<v % 256>> \o LittleEndian(v \div 256, n - 1)

RECURSIVE FromLittleEndian(_)
\* The unsigned integer of little-endian bytes
FromLittleEndian(bytes) ==
    IF bytes = <<>> THEN 0
    ELSE Head(bytes) + 256 * FromLittleEndian(Tail(bytes))

\* serialise(&Address): variant index (u32), name bytes, tag (u64)
SerialiseAddress(self) ==
    LittleEndian(IF self.variant = "Public" THEN 0 ELSE 1, 4)
        \o self.name \o LittleEndian(self.tag, 8)

\* deserialise::<Address>(bytes)
DeserialiseAddress(bytes) ==
    IF Len(bytes) < 4 + XorNameLen + 8 THEN Err("FailedToParse")
    ELSE LET index == FromLittleEndian(SubSeq(bytes, 1, 4))
             name == SubSeq(bytes, 5, 4 + XorNameLen)
             tag == FromLittleEndian(SubSeq(bytes, 5 + XorNameLen,
                                            12 + XorNameLen))
         IN  CASE index = 0 ->
                    <<"Ok", [variant |-> "Public", name |-> name, tag |-> tag]>>
               [] index = 1 ->
                    <<"Ok", [variant |-> "Private", name |-> name, tag |-> tag]>>
               [] OTHER -> Err("FailedToParse")

\* The bits of a byte sequence, most significant bit first
BitsOfBytes(bytes) ==
    [k \in 1..(8 * Len(bytes)) |->
        (bytes[((k - 1) \div 8) + 1] \div (2 ^ (7 - ((k - 1) % 8)))) % 2]

\* The value of the 5-bit group g of a bit sequence, zero-padded at the end
Quintet(bits, g) ==
    LET bit(k) == IF k <= Len(bits) THEN bits[k] ELSE 0
        b == 5 * (g - 1)
    IN  16 * bit(b + 1) + 8 * bit(b + 2) + 4 * bit(b + 3)
           + 2 * bit(b + 4) + bit(b + 5)

\* multibase::encode(Base::Base32Z, bytes): the prefix and one character per
\* 5 bits, without padding characters
MultibaseEncode(bytes) ==
    LET bits == BitsOfBytes(bytes)
        n == (Len(bits) + 4) \div 5
    IN  <<ZBase32Prefix>> \o [g \in 1..n |-> ZBase32Alphabet[Quintet(bits, g) + 1]]

\* The 5-bit value of a z-base-32 character
ZBase32Value(c) == (CHOOSE v \in 1..32 : ZBase32Alphabet[v] = c) - 1

\* multibase::decode(text) with the check of the base: the bytes, or None
\* when the base is not z-base-32 or a character is not of its alphabet
MultibaseDecode(text) ==
    IF text = <<>> \/ Head(text) # ZBase32Prefix THEN None
    ELSE LET chars == Tail(text)
         IN  IF \E k \in 1..Len(chars) :
                    \A v \in 1..32 : ZBase32Alphabet[v] # chars[k]
             THEN None
             ELSE LET vals == [k \in 1..Len(chars) |-> ZBase32Value(chars[k])]
                      bit(k) == (vals[((k - 1) \div 5) + 1]
                                    \div (2 ^ (4 - ((k - 1) % 5)))) % 2
                      n == (5 * Len(chars)) \div 8
                  IN  Some([j \in 1..n |->
                              128 * bit(8 * j - 7) + 64 * bit(8 * j - 6)
                               + 32 * bit(8 * j - 5) + 16 * bit(8 * j - 4)
                               + 8 * bit(8 * j - 3) + 4 * bit(8 * j - 2)
                               + 2 * bit(8 * j - 1) + bit(8 * j)])

\* Variant of encode_to_zbase32 that encodes the name of the address only
AddressEncodeNameOnly(self) == MultibaseEncode(self.name)

\* Address::encode_to_zbase32: utils::encode(&self)
AddressEncodeToZbase32(self) == MultibaseEncode(SerialiseAddress(self))

\* Address::decode_from_zbase32: utils::decode(encoded)
AddressDecodeFromZbase32(text) ==
    LET bytes == MultibaseDecode(text)
    IN  IF bytes = None THEN Err("FailedToParse")
        ELSE DeserialiseAddress(bytes[1])

\* The texts handed to decode: a text as encoded, the text without its last
\* character, and the text under another multibase prefix
TextsFrom(text) ==
    {text, SubSeq(text, 1, Len(text) - 1), <<"b">> \o Tail(text)}

InitText == IdlePerms /\ IdleMap /\ IdleRequest /\ IdleEntry /\ IdleText

\* address.encode_to_zbase32()
EncodeAddress ==
    /\ \E address \in TextAddresses :
          encoded' = Some([address |-> address,
                           text |-> AddressEncodeToZbase32(address)])
    /\ decoded' = None
    /\ UNCHANGED <<permissions, checked, data, observed, request, outcome,
                   entryVars>>

\* Address::decode_from_zbase32(text) for the encoded text or a variation
DecodeText ==
    /\ encoded # None
    /\ \E text \in TextsFrom(encoded[1].text) :
          decoded' = Some([text |-> text,
                           result |-> AddressDecodeFromZbase32(text)])
    /\ UNCHANGED <<permissions, checked, data, observed, request, outcome,
                   entryVars, encoded>>

NextText == EncodeAddress \/ DecodeText

SpecText == InitText /\ [][NextText]_vars

(***************************************************************************)
(* Properties of the resolver (checked under Spec)                         *)
(***************************************************************************)
Denied == Err("AccessDenied")

\* The actions a public entry stores a bit for, other than read
StoredActions == {"Insert", "Update", "ManagePermissions"}

PubChecked == permissions.kind = "Pub" /\ checked # NoCheck

PrivChecked == permissions.kind = "Priv" /\ checked # NoCheck

\* The Option<bool> a public permissions map stores for user and action
\* (None when the user has no entry)
PubStored(user, action) ==
    IF user \notin DOMAIN permissions.permissions THEN None
    ELSE LET e == permissions.permissions[user]
         IN  CASE action = "Insert" -> e.insert
               [] action = "Update" -> e.update
               [] action = "ManagePermissions" -> e.manage_permissions

\* The boolean a private entry stores for an action
PrivStored(key, action) ==
    LET e == permissions.permissions[key]
    IN  CASE action = "Read" -> e.read
          [] action = "Insert" -> e.insert
          [] action = "Update" -> e.update
          [] action = "Delete" -> e.delete
          [] action = "ManagePermissions" -> e.manage_permissions

\* C1: on a public permission set, is_action_allowed(requester, Read) is Ok
\* for every requester and every content of the permissions map.
C1_PubReadAlwaysOk ==
    (PubChecked /\ checked.action = "Read") => checked.result = Ok

\* C2: on a public permission set, is_action_allowed(requester, Delete) is
\* Err(AccessDenied) for every requester and every content of the map.
C2_PubDeleteAlwaysDenied ==
    (PubChecked /\ checked.action = "Delete") => checked.result = Denied

\* C2 witness: Delete was asked of a set in which both the requester and
\* Anyone hold an entry granting every stored permission.
C2_Witness ==
    /\ PubChecked /\ checked.action = "Delete"
    /\ \A u \in {Key(checked.requester), Anyone} :
          /\ u \in DOMAIN permissions.permissions
          /\ permissions.permissions[u] =
                PubUserPermissionsNew(Some(TRUE), Some(TRUE), Some(TRUE), Some(TRUE))
    /\ checked.result = Denied

\* C3: on a private permission set, a requester without an entry is denied
\* every one of the five actions, whatever entries other keys have.
C3_PrivNoEntryDenied ==
    (PrivChecked /\ checked.requester \notin DOMAIN permissions.permissions)
        => checked.result = Denied

\* C3 witness: the requester has no entry while another key is granted
\* everything, and the call was denied.
C3_Witness ==
    /\ PrivChecked
    /\ checked.requester \notin DOMAIN permissions.permissions
    /\ \E k \in DOMAIN permissions.permissions :
          permissions.permissions[k] =
              PrivUserPermissionsNew(TRUE, TRUE, TRUE, TRUE, TRUE)
    /\ checked.result = Denied

\* C4: on a public set and for Insert, Update or ManagePermissions, an own
\* entry holding Some(false) for the action denies it, even when the Anyone
\* entry holds Some(true) for the same action.
C4_PubOwnDenialOverridesAnyone ==
    (/\ PubChecked /\ checked.action \in StoredActions
     /\ PubStored(Key(checked.requester), checked.action) = Some(FALSE))
        => checked.result = Denied

\* C4 witness: own entry Some(false), Anyone entry Some(true), call denied.
C4_Witness ==
    /\ PubChecked /\ checked.action \in StoredActions
    /\ PubStored(Key(checked.requester), checked.action) = Some(FALSE)
    /\ PubStored(Anyone, checked.action) = Some(TRUE)
    /\ checked.result = Denied

\* C5: on a public set and for Insert, Update or ManagePermissions, the
\* requester's entry is resolved first and Anyone is only the fall-back: with
\* no own entry, or an own None, the result is Ok iff the Anyone entry holds
\* Some(true); with an own Some(b) the result is Ok iff b, whatever Anyone holds.
C5_PubOwnFirstThenAnyone ==
    (PubChecked /\ checked.action \in StoredActions) =>
        LET own == PubStored(Key(checked.requester), checked.action)
            any == PubStored(Anyone, checked.action)
        IN  IF own = None
            THEN (checked.result = Ok) <=> (any = Some(TRUE))
            ELSE (checked.result = Ok) <=> (own = Some(TRUE))

\* C5 witness: the own entry holds None for the action and the Anyone entry
\* Some(true), so the fall-back granted the call.
C5_Witness ==
    /\ PubChecked /\ checked.action \in StoredActions
    /\ Key(checked.requester) \in DOMAIN permissions.permissions
    /\ PubStored(Key(checked.requester), checked.action) = None
    /\ PubStored(Anyone, checked.action) = Some(TRUE)
    /\ checked.result = Ok

\* C6: on a public set and for Insert, Update or ManagePermissions, the
\* result is Ok only if the requester's or the Anyone entry holds an explicit
\* Some(true); otherwise, and in particular when neither has an entry, it is
\* Err(AccessDenied).
C6_PubOkOnlyOnExplicitGrant ==
    (PubChecked /\ checked.action \in StoredActions) =>
        /\ checked.result \in {Ok, Denied}
        /\ checked.result = Ok =>
              \E u \in {Key(checked.requester), Anyone} :
                 PubStored(u, checked.action) = Some(TRUE)
        /\ ({Key(checked.requester), Anyone} \cap DOMAIN permissions.permissions = {})
              => checked.result = Denied

\* C6 witness: neither the requester nor Anyone has an entry (another key is
\* granted everything) and the call was denied.
C6_Witness ==
    /\ PubChecked /\ checked.action \in StoredActions
    /\ {Key(checked.requester), Anyone} \cap DOMAIN permissions.permissions = {}
    /\ \E u \in DOMAIN permissions.permissions :
          permissions.permissions[u] =
              PubUserPermissionsNew(Some(TRUE), Some(TRUE), Some(TRUE), Some(TRUE))
    /\ checked.result = Denied

\* C7: on a private set, for a requester that has an entry, the result is Ok
\* if and only if the entry's boolean for the action is true.
C7_PrivOwnBitDecides ==
    (PrivChecked /\ checked.requester \in DOMAIN permissions.permissions) =>
        /\ checked.result \in {Ok, Denied}
        /\ (checked.result = Ok)
              <=> PrivStored(checked.requester, checked.action)

\* C7 witness: the requester's entry grants only the action asked, another
\* key's entry grants nothing, and the call succeeded.
C7_Witness ==
    /\ PrivChecked
    /\ DOMAIN permissions.permissions = PublicKeys
    /\ \A a \in Actions :
          PrivStored(checked.requester, a) <=> (a = checked.action)
    /\ \A k \in PublicKeys \ {checked.requester} :
          permissions.permissions[k] =
              PrivUserPermissionsNew(FALSE, FALSE, FALSE, FALSE, FALSE)
    /\ checked.result = Ok

(***************************************************************************)
(* Properties of Map construction (checked under SpecMap)                  *)
(***************************************************************************)
\* C8: the permission-set variant a Map carries matches the visibility of
\* its address: a public Map has a Public address and a private Map has a
\* Private address, whatever constructor call produced it.
C8_VariantMatchesAddress ==
    data # NoData =>
        /\ data.variant = "Public" => AddressIsPublic(MapCrdtAddress(data.map))
        /\ data.variant = "Private" => AddressIsPrivate(MapCrdtAddress(data.map))

(***************************************************************************)
(* Properties of request classification (checked under SpecRequest)        *)
(***************************************************************************)
MutationVariants ==
    {"Store", "Delete", "MutatePubPermissions", "MutatePrivPermissions",
     "MutateOwner", "Mutate"}

ReadVariants ==
    {"Get", "GetRange", "GetLastEntry", "GetPermissions",
     "GetUserPermissions", "GetOwner"}

\* C9: authorisation_kind gives every request exactly one class: Mutation
\* for the six mutating variants whatever their address, and for the six
\* reading variants GetPub on a public address and GetPriv on a private one.
C9_AuthorisationKindClasses ==
    outcome.op = "authorisation_kind" =>
        /\ request.variant \in MutationVariants \cup ReadVariants
        /\ request.variant \in MutationVariants => outcome.value = "Mutation"
        /\ request.variant \in ReadVariants =>
              outcome.value = IF request.address.variant = "Public"
                              THEN "GetPub" ELSE "GetPriv"

\* C9 witness: a GetRange on a private address was classified GetPriv.
C9_Witness ==
    /\ outcome.op = "authorisation_kind"
    /\ request.variant = "GetRange"
    /\ request.address.variant = "Private"
    /\ outcome.value = "GetPriv"

\* The response shape mirroring each reading variant
ReadShape ==
    [Get |-> "GetSData", GetRange |-> "GetSDataRange",
     GetLastEntry |-> "GetSDataLastEntry",
     GetPermissions |-> "GetSDataPermissions",
     GetUserPermissions |-> "GetSDataUserPermissions",
     GetOwner |-> "GetSDataOwner"]

\* C10 as stated: error_response gives one response shape per request
\* variant (no two variants share a shape, none gets a generic one) and the
\* response carries exactly the error passed in.
C10_OneShapePerVariant ==
    outcome.op = "error_response" =>
        /\ outcome.value.result = Err(outcome.arg)
        /\ \A r \in SDataRequests :
              r.variant # request.variant =>
                 ErrorResponse(r, outcome.arg).variant # outcome.value.variant

\* C10 amended: error_response gives each of the six reading variants its
\* own response shape, gives the six mutating variants the one shared
\* Mutation shape, and the response carries exactly the error passed in.
C10_ErrorResponseShape ==
    outcome.op = "error_response" =>
        /\ outcome.value.result = Err(outcome.arg)
        /\ outcome.value.variant =
              IF request.variant \in DOMAIN ReadShape
              THEN ReadShape[request.variant] ELSE "Mutation"
        /\ request.variant \in ReadVariants =>
              \A r \in SDataRequests :
                 r.variant # request.variant =>
                    ErrorResponse(r, outcome.arg).variant # outcome.value.variant

\* C10 witness: a failed GetRange produced the range response carrying the
\* error it was given.
C10_Witness ==
    /\ outcome.op = "error_response"
    /\ request.variant = "GetRange"
    /\ outcome.arg = "NotFound"
    /\ outcome.value = [variant |-> "GetSDataRange", result |-> Err("NotFound")]

\* The name of the address a request targets
TargetName(r) ==
    CASE r.variant = "Store" -> r.data.address.name
      [] r.variant \in {"MutatePubPermissions", "MutatePrivPermissions",
                        "MutateOwner", "Mutate"} -> r.op.address.name
      [] r.variant \in ReadVariants \cup {"Delete"} -> r.address.name

\* C11: for every request variant dest_address returns a present
\* destination, equal to the name of the address the request targets, and
\* the call leaves the request as it was.
C11_DestAddressIsTargetName ==
    [][outcome'.op = "dest_address" =>
          /\ request' = request
          /\ request'.variant \in MutationVariants \cup ReadVariants
          /\ outcome'.value # None
          /\ outcome'.value = Some(TargetName(request'))]_vars

\* C11 witness: dest_address of a Store request gave the name of the stored
\* data.
C11_Witness ==
    /\ outcome.op = "dest_address"
    /\ request.variant = "Store"
    /\ outcome.value = Some(request.data.address.name)

\* The Type and the AuthorisationKind that name the same class
SameClass(type, kind) ==
    /\ type = "Mutation" <=> kind = "Mutation"
    /\ type = "PublicGet" <=> kind = "GetPub"
    /\ type = "PrivateGet" <=> kind = "GetPriv"

\* C13: get_type and authorisation_kind class every request alike (Mutation
\* with Mutation, PublicGet with GetPub, PrivateGet with GetPriv), and
\* error_response yields the Mutation response exactly for the requests of
\* the mutation class.
C13_ClassificationsAgree ==
    /\ outcome.op = "get_type" =>
          /\ outcome.value \in {"Mutation", "PublicGet", "PrivateGet"}
          /\ SameClass(outcome.value, AuthorisationKind(request))
    /\ outcome.op = "authorisation_kind" =>
          SameClass(GetType(request), outcome.value)
    /\ outcome.op = "error_response" =>
          /\ outcome.value.variant = "Mutation"
                <=> AuthorisationKind(request) = "Mutation"
          /\ outcome.value.variant = "Mutation"
                <=> GetType(request) = "Mutation"

\* C13 witness: get_type classed a GetOwner on a private address PrivateGet,
\* where authorisation_kind gives GetPriv.
C13_Witness ==
    /\ outcome.op = "get_type"
    /\ request.variant = "GetOwner"
    /\ request.address.variant = "Private"
    /\ outcome.value = "PrivateGet"
    /\ AuthorisationKind(request) = "GetPriv"

(***************************************************************************)
(* Properties of a single public entry (checked under SpecEntry)           *)
(***************************************************************************)
\* The Option<bool> an argument of new / set_perms stands for
GivenValue(x) == IF x[1] = "bool" THEN <<x[2]>> ELSE x[2]

C12_RoundTrip ==
    (encoded # None /\ decoded # None /\ decoded[1].text = encoded[1].text) =>
        /\ decoded[1].result = <<"Ok", encoded[1].address>>
        /\ decoded[1].result[2].variant = encoded[1].address.variant

\* C12 witness: a Private address with a tag of several bytes was encoded
\* and its text decoded back to it.
C12_Witness ==
    /\ encoded # None /\ decoded # None
    /\ decoded[1].text = encoded[1].text
    /\ encoded[1].address.variant = "Private"
    /\ encoded[1].address.tag = 65537
    /\ decoded[1].result = <<"Ok", encoded[1].address>>

====
